---- MODULE Spec2Model ----
(***************************************************************************)
(* Model of pkg/internal/webhook/validator.go: the admission validator of  *)
(* CertificateRequestPolicy resources.  The state is the validator struct  *)
(* (lock, decoder, registeredPlugins, webhooks) together with the          *)
(* goroutines that run Handle, InjectDecoder and check concurrently.       *)
(***************************************************************************)
EXTENDS Integers, Sequences, FiniteSets, TLC

(***************************************************************************)
(* Bounds of the model.                                                    *)
(***************************************************************************)
\* Requests served one after the other by each Handle worker slot.
MaxRequests == 1
\* Readiness probes issued one after the other by each check worker slot.
MaxChecks == 1

HandleWorkers == {"h1"}
CheckWorkers == {"c1"}
InjectWorkers == {"i1", "i2"}
Workers == HandleWorkers \cup CheckWorkers \cup InjectWorkers

(***************************************************************************)
(* Values.                                                                 *)
(***************************************************************************)
\* A nil pointer (req.RequestKind, v.decoder, Selector.IssuerRef, ...).
Nil == [nil |-> TRUE]
\* No error.
NoErr == "nil"

\* The decoders the manager may hand to InjectDecoder (never a nil one).
Decoders == {[id |-> "D1"], [id |-> "D2"]}
\* The decoder each injecting goroutine was handed.
DecoderOf(w) == IF w = "i1" THEN [id |-> "D1"] ELSE [id |-> "D2"]

\* Plugin names, in ascending lexicographic order.
PluginNames == <<"a", "b", "c">>
\* validator.registeredPlugins, fixed at construction.
registeredPlugins == <<"c">>
\* validator.webhooks, fixed at construction, in registration order.
webhooks == <<"w1", "w2">>

\* The group/version/kind Handle recognises.
CRPKind ==
  [Group |-> "policy.cert-manager.io", Version |-> "v1alpha1",
   Kind |-> "CertificateRequestPolicy"]
\* req.RequestKind: nil, the recognised kind, or another kind.
RequestKinds ==
  {Nil, CRPKind,
   [Group |-> "policy.cert-manager.io", Version |-> "v1beta1",
    Kind |-> "CertificateRequestPolicy"],
   [Group |-> "cert-manager.io", Version |-> "v1alpha1",
    Kind |-> "CertificateRequestPolicy"],
   [Group |-> "policy.cert-manager.io", Version |-> "v1alpha1",
    Kind |-> "CertificateRequest"]}

\* req.Object.Raw, by what Decode makes of it: no bytes at all, bytes that do
\* not deserialise, bytes that deserialise into a CertificateRequestPolicy.
Payloads == {"empty", "malformed", "valid"}

\* Label mappings of a namespace matcher: none, one that compiles into a
\* selector, one whose value is no valid label value.
LabelMaps == {{}, {<<"env", "prod">>}, {<<"env", "not a label!">>}}
ValidLabelValues == {"prod"}

\* policy.Spec.Selector.IssuerRef: nil, `{}`, or a non-empty reference.
IssuerRefs == {Nil, [Name |-> ""], [Name |-> "my-issuer"]}
\* policy.Spec.Selector.Namespace: nil or a matcher with its MatchLabels.
NamespaceSelectors == {Nil} \cup {[MatchLabels |-> m] : m \in LabelMaps}

Range(s) == {s[k] : k \in DOMAIN s}

\* The decoded CertificateRequestPolicy objects.
Policies ==
  [Plugins : SUBSET Range(PluginNames),
   IssuerRef : IssuerRefs,
   Namespace : NamespaceSelectors]
NoPolicy == [none |-> TRUE]

(***************************************************************************)
(* Field errors and the base checks of certificateRequestPolicy.           *)
(***************************************************************************)
\* field.NotSupported(spec.plugins, name, registeredPlugins)
NotSupported(name) ==
  [Type |-> "NotSupported", Field |-> "spec.plugins", BadValue |-> name]
\* field.Required(spec.selector, "one of issuerRef or namespace ...")
Required ==
  [Type |-> "Required", Field |-> "spec.selector", BadValue |-> ""]
\* The text of a label mapping (it has at most one pair here).
LabelsText(m) ==
  IF m = {} THEN "map[]"
  ELSE LET p == CHOOSE q \in m : TRUE IN "map[" \o p[1] \o ":" \o p[2] \o "]"
\* field.Invalid(spec.selector.namespace.matchLabels, MatchLabels, err)
Invalid(m) ==
  [Type |-> "Invalid", Field |-> "spec.selector.namespace.matchLabels",
   BadValue |-> LabelsText(m)]
\* The field error webhooks[i] reports when it denies with a reason.
WebhookError(i) ==
  [Type |-> "Forbidden", Field |-> "spec.plugins", BadValue |-> webhooks[i]]

\* The inner loop of lines 105-110: exact match against registeredPlugins.
IsRegistered(name) ==
  \E k \in DOMAIN registeredPlugins : name = registeredPlugins[k]

\* The orders in which `range policy.Spec.Plugins` may visit the map's keys.
MapOrders(S) == {o \in [1..Cardinality(S) -> S] : Range(o) = S}

\* Lines 102-115: the names not registered, in the order the map gave them.
UnrecognisedNames(order) == SelectSeq(order, LAMBDA n : ~IsRegistered(n))

\* Byte-wise string order on the plugin names.
StringLess(x, y) ==
  (CHOOSE k \in DOMAIN PluginNames : PluginNames[k] = x)
    < (CHOOSE k \in DOMAIN PluginNames : PluginNames[k] = y)

\* Insert x into the ascending sequence s.
RECURSIVE Insert(_, _)
Insert(x, s) ==
  IF s = <<>> THEN <<x>>
  ELSE IF StringLess(x, Head(s)) THEN <<x>> \o s
  ELSE <<Head(s)>> \o Insert(x, Tail(s))

\* Fault: the names are left in the order the map gave them.
SortStrings_Unsorted(s) == s

\* sort.Strings, line 119.
RECURSIVE SortStrings(_)
SortStrings(s) ==
  IF s = <<>> THEN <<>> ELSE Insert(Head(s), SortStrings(Tail(s)))

\* Lines 117-123: one NotSupported error per unrecognised name, sorted.
PluginErrors(order) ==
  LET names == SortStrings(UnrecognisedNames(order))
  IN  [k \in DOMAIN names |-> NotSupported(names[k])]

\* Fault: an empty sub-selector `{}` is taken for a missing one.
SelectorErrors_EmptyIsUnset(policy) ==
  IF policy.IssuerRef \in {Nil, [Name |-> ""]}
     /\ policy.Namespace \in {Nil, [MatchLabels |-> {}]}
  THEN <<Required>> ELSE <<>>

\* Fault: the selector is rejected as soon as one sub-selector is missing.
SelectorErrors_Either(policy) ==
  IF policy.IssuerRef = Nil \/ policy.Namespace = Nil
  THEN <<Required>> ELSE <<>>

\* Lines 125-127: neither sub-selector is set.
SelectorErrors(policy) ==
  IF policy.IssuerRef = Nil /\ policy.Namespace = Nil
  THEN <<Required>> ELSE <<>>

\* Fault: the label mapping is never compiled.
LabelSelectorAsSelector_Unchecked(m) == NoErr

\* metav1.LabelSelectorAsSelector fails on a value that is no label value.
LabelSelectorAsSelector(m) ==
  IF \A p \in m : p[2] \in ValidLabelValues THEN NoErr
  ELSE "invalid label value"

\* Lines 129-133: a non-empty MatchLabels must compile into a selector.
MatchLabelsErrors(policy) ==
  IF policy.Namespace # Nil /\ Cardinality(policy.Namespace.MatchLabels) > 0
     /\ LabelSelectorAsSelector(policy.Namespace.MatchLabels) # NoErr
  THEN <<Invalid(policy.Namespace.MatchLabels)>> ELSE <<>>

\* Lines 101-133: el as it stands before the first webhook is called, when
\* the plugin map was visited in `order`.
BaseChecks(policy, order) ==
  PluginErrors(order) \o SelectorErrors(policy) \o MatchLabelsErrors(policy)

(***************************************************************************)
(* Webhooks.                                                               *)
(***************************************************************************)
\* What webhooks[i].Validate may return: an execution error, or a response
\* with a verdict and a list of field errors (which may be empty either way).
ValidateResults(i) ==
  {[Err |-> "validate failed", Allowed |-> FALSE, Errors |-> <<>>]}
  \cup [Err : {NoErr}, Allowed : BOOLEAN, Errors : {<<>>, <<WebhookError(i)>>}]

\* Fault: the errors of a response are appended whatever its verdict.
AppendResponse_Always(el, response) == el \o response.Errors

\* Lines 140-142: the errors of a response are appended only on a denial.
AppendResponse(el, response) ==
  IF ~response.Allowed THEN el \o response.Errors ELSE el

(***************************************************************************)
(* Decoding and admission responses.                                       *)
(***************************************************************************)
\* admission.Decoder.Decode on the handle d: "ok", "err" (an error is
\* returned) or "panic".  Decode refuses an empty payload before it touches
\* its receiver; any other payload makes it dereference the receiver, which
\* is a nil pointer dereference while the decoder has not been injected.
Decode(d, payload) ==
  IF payload = "empty" THEN "err"
  ELSE IF d = Nil THEN "panic"
  ELSE IF payload = "malformed" THEN "err"
  ELSE "ok"

\* admission.Errored(code, err)
Errored(code, err) ==
  [Variant |-> "Errored", Allowed |-> FALSE, Code |-> code, Message |-> <<err>>]
\* admission.Denied(reason)
Denied(reason) ==
  [Variant |-> "Denied", Allowed |-> FALSE, Code |-> 403, Message |-> reason]
\* admission.Allowed(reason)
Allowed(reason) ==
  [Variant |-> "Allowed", Allowed |-> TRUE, Code |-> 200, Message |-> <<reason>>]
NoResponse ==
  [Variant |-> "none", Allowed |-> FALSE, Code |-> 0, Message |-> <<>>]

\* el.ToAggregate().Error(): the errors in order, each message once.
RECURSIVE ToAggregate(_)
ToAggregate(el) ==
  IF el = <<>> THEN <<>>
  ELSE LET init == ToAggregate(SubSeq(el, 1, Len(el) - 1))
           last == el[Len(el)]
       IN  IF last \in Range(init) THEN init ELSE Append(init, last)

\* Fault: the missing kind is reported as an internal error.
NoKindResponse_500 == Errored(500, "no resource kind sent in request")

\* Line 57: the response to a request that declares no kind.
NoKindResponse == Errored(400, "no resource kind sent in request")

\* Line 89: the message of the denial of an unrecognised kind.
UnrecognisedMessage(kind) ==
  <<"validation request for unrecognised resource type",
    kind.Group, kind.Version, kind.Kind>>

\* Fault: the case compares the Kind alone, not group and version.
IsCertificateRequestPolicy_KindOnly(kind) ==
  kind.Kind = "CertificateRequestPolicy"

\* Line 61: the case of the switch on *req.RequestKind.
IsCertificateRequestPolicy(kind) == kind = CRPKind

\* Fault: an execution error is reported as a client error.
ResponseOf_400(el, err) ==
  IF err # NoErr THEN Errored(400, err)
  ELSE IF Len(el) > 0 THEN Denied(ToAggregate(el))
  ELSE Allowed("CertificateRequestPolicy validated")

\* Lines 75-86: the response Handle builds from what
\* certificateRequestPolicy returned.
ResponseOf(el, err) ==
  IF err # NoErr THEN Errored(500, err)
  ELSE IF Len(el) > 0 THEN Denied(ToAggregate(el))
  ELSE Allowed("CertificateRequestPolicy validated")

(***************************************************************************)
(* State.                                                                  *)
(***************************************************************************)
VARIABLES
  decoder,      \* validator.decoder: Nil until injected
  readerCount,  \* validator.lock: the read locks held
  writer,       \* validator.lock: the goroutine inside Lock(), or "none"
  pc,           \* where each goroutine stands
  req,          \* Handle: the admission request
  policy,       \* Handle: the decoded CertificateRequestPolicy
  err,          \* Handle: the error Decode returned
  el,           \* certificateRequestPolicy: the field errors so far
  idx,          \* certificateRequestPolicy: position in `range v.webhooks`
  ret,          \* what certificateRequestPolicy returned to Handle
  resp,         \* the admission response Handle returned
  d,            \* InjectDecoder: its argument
  ready,        \* check: what the nil test of v.decoder found
  checkErr,     \* check: the error it returned
  served,       \* requests each Handle worker has taken
  checked,      \* probes each check worker has issued
  saw,          \* history: the handle a goroutine read under the read lock
  collected,    \* history: unrecognisedNames as gathered, before it is sorted
  trace,        \* history: the steps of the current Handle call
  invoked,      \* history: the webhooks Validate was called on, in order
  responses,    \* history: what those calls returned, in order
  inflight      \* history: the webhooks whose Validate is in progress

vars ==
  <<decoder, readerCount, writer, pc, req, policy, err, el, idx, ret, resp, d,
    ready, checkErr, served, checked, saw, collected, trace, invoked, responses,
    inflight>>

lockVars == <<readerCount, writer>>
handleVars ==
  <<req, policy, err, el, idx, ret, resp, served, collected, trace, invoked,
    responses, inflight>>
checkVars == <<ready, checkErr, checked>>

NoRequest == [RequestKind |-> Nil, Object |-> "empty"]
NoReturn == [el |-> <<>>, err |-> NoErr]

Init ==
  /\ decoder = Nil
  /\ readerCount = 0
  /\ writer = "none"
  /\ pc = [w \in Workers |-> "idle"]
  /\ req = [w \in HandleWorkers |-> NoRequest]
  /\ policy = [w \in HandleWorkers |-> NoPolicy]
  /\ err = [w \in HandleWorkers |-> NoErr]
  /\ el = [w \in HandleWorkers |-> <<>>]
  /\ idx = [w \in HandleWorkers |-> 0]
  /\ ret = [w \in HandleWorkers |-> NoReturn]
  /\ resp = [w \in HandleWorkers |-> NoResponse]
  /\ d = [w \in InjectWorkers |-> Nil]
  /\ ready = [w \in CheckWorkers |-> FALSE]
  /\ checkErr = [w \in CheckWorkers |-> NoErr]
  /\ served = [w \in HandleWorkers |-> 0]
  /\ checked = [w \in CheckWorkers |-> 0]
  /\ saw = [w \in HandleWorkers \cup CheckWorkers |-> Nil]
  /\ collected = [w \in HandleWorkers |-> <<>>]
  /\ trace = [w \in HandleWorkers |-> <<>>]
  /\ invoked = [w \in HandleWorkers |-> <<>>]
  /\ responses = [w \in HandleWorkers |-> <<>>]
  /\ inflight = [w \in HandleWorkers |-> {}]

(***************************************************************************)
(* sync.RWMutex: a goroutine inside Lock() keeps new readers out while it  *)
(* waits for the readers that hold the lock to leave.                      *)
(***************************************************************************)
\* RLock returns only while no writer is pending or active.
CanRLock(w) == writer = "none"
\* Lock first takes the writers' mutex.
CanLock(w) == writer = "none"
\* Lock then waits until the readers have left.
\* Fault: the write lock is granted while readers still hold the lock.
ReadersGone_Shared(w) == TRUE

ReadersGone(w) == readerCount = 0

(***************************************************************************)
(* Handle (lines 52-91).                                                   *)
(***************************************************************************)
\* A request arrives on a worker: any declared kind, any payload.
Handle_Receive(w) ==
  /\ pc[w] \in {"idle", "done", "panicked"}
  /\ served[w] < MaxRequests
  /\ \E kind \in RequestKinds, object \in Payloads :
       req' = [req EXCEPT ![w] = [RequestKind |-> kind, Object |-> object]]
  /\ served' = [served EXCEPT ![w] = @ + 1]
  /\ pc' = [pc EXCEPT ![w] = "dispatch"]
  /\ policy' = [policy EXCEPT ![w] = NoPolicy]
  /\ err' = [err EXCEPT ![w] = NoErr]
  /\ el' = [el EXCEPT ![w] = <<>>]
  /\ idx' = [idx EXCEPT ![w] = 0]
  /\ ret' = [ret EXCEPT ![w] = NoReturn]
  /\ resp' = [resp EXCEPT ![w] = NoResponse]
  /\ saw' = [saw EXCEPT ![w] = Nil]
  /\ collected' = [collected EXCEPT ![w] = <<>>]
  /\ trace' = [trace EXCEPT ![w] = <<>>]
  /\ invoked' = [invoked EXCEPT ![w] = <<>>]
  /\ responses' = [responses EXCEPT ![w] = <<>>]
  /\ inflight' = [inflight EXCEPT ![w] = {}]
  /\ UNCHANGED <<decoder, lockVars, d, checkVars>>

\* Lines 56-58: no resource kind was sent.
Handle_NoKind(w) ==
  /\ pc[w] = "dispatch"
  /\ req[w].RequestKind = Nil
  /\ resp' = [resp EXCEPT ![w] = NoKindResponse]
  /\ pc' = [pc EXCEPT ![w] = "done"]
  /\ UNCHANGED <<decoder, lockVars, req, policy, err, el, idx, ret, d, checkVars,
                 served, collected, saw, trace, invoked, responses, inflight>>

\* Lines 88-89: the default case of the switch.
Handle_Unrecognised(w) ==
  /\ pc[w] = "dispatch"
  /\ req[w].RequestKind # Nil
  /\ ~IsCertificateRequestPolicy(req[w].RequestKind)
  /\ resp' = [resp EXCEPT ![w] = Denied(UnrecognisedMessage(req[w].RequestKind))]
  /\ pc' = [pc EXCEPT ![w] = "done"]
  /\ UNCHANGED <<decoder, lockVars, req, policy, err, el, idx, ret, d, checkVars,
                 served, collected, saw, trace, invoked, responses, inflight>>

\* Lines 61-65: the CertificateRequestPolicy case takes the read lock.
Handle_RLock(w) ==
  /\ pc[w] = "dispatch"
  /\ req[w].RequestKind # Nil
  /\ IsCertificateRequestPolicy(req[w].RequestKind)
  /\ CanRLock(w)
  /\ readerCount' = readerCount + 1
  /\ trace' = [trace EXCEPT ![w] = Append(@, "RLock")]
  /\ pc' = [pc EXCEPT ![w] = "decode"]
  /\ UNCHANGED <<decoder, writer, req, policy, err, el, idx, ret, resp, d,
                 checkVars, served, collected, saw, invoked, responses, inflight>>

\* Line 66: v.decoder.Decode(req, &policy) returns.
Handle_Decode(w) ==
  /\ pc[w] = "decode"
  /\ Decode(decoder, req[w].Object) # "panic"
  /\ IF Decode(decoder, req[w].Object) = "ok"
     THEN /\ \E p \in Policies : policy' = [policy EXCEPT ![w] = p]
          /\ err' = [err EXCEPT ![w] = NoErr]
     ELSE /\ err' = [err EXCEPT ![w] = "decode failed"]
          /\ UNCHANGED policy
  /\ saw' = [saw EXCEPT ![w] = decoder]
  /\ trace' = [trace EXCEPT ![w] = Append(@, "Decode")]
  /\ pc' = [pc EXCEPT ![w] = "runlock"]
  /\ UNCHANGED <<decoder, lockVars, req, el, idx, ret, resp, d, checkVars,
                 served, collected, invoked, responses, inflight>>

\* Line 66: v.decoder.Decode panics.  The goroutine unwinds out of Handle
\* without a response (the HTTP server recovers and keeps serving); the
\* RUnlock of line 67 is not deferred, so the read lock stays held.
Handle_DecodePanic(w) ==
  /\ pc[w] = "decode"
  /\ Decode(decoder, req[w].Object) = "panic"
  /\ saw' = [saw EXCEPT ![w] = decoder]
  /\ trace' = [trace EXCEPT ![w] = Append(@, "Decode")]
  /\ pc' = [pc EXCEPT ![w] = "panicked"]
  /\ UNCHANGED <<decoder, lockVars, req, policy, err, el, idx, ret, resp, d,
                 checkVars, served, collected, invoked, responses, inflight>>

\* Fault: the read lock is not released before the validation.
ReadersAfterRUnlock_Kept(n) == n

\* Line 67: v.lock.RUnlock() gives the read lock back.
ReadersAfterRUnlock(n) == n - 1

\* Lines 67-72: release the read lock; a decode error ends the request.
Handle_RUnlock(w) ==
  /\ pc[w] = "runlock"
  /\ readerCount' = ReadersAfterRUnlock(readerCount)
  /\ trace' = [trace EXCEPT ![w] = Append(@, "RUnlock")]
  /\ IF err[w] # NoErr
     THEN /\ resp' = [resp EXCEPT ![w] = Errored(400, err[w])]
          /\ pc' = [pc EXCEPT ![w] = "done"]
     ELSE /\ pc' = [pc EXCEPT ![w] = "base"]
          /\ UNCHANGED resp
  /\ UNCHANGED <<decoder, writer, req, policy, err, el, idx, ret, d, checkVars,
                 served, collected, saw, invoked, responses, inflight>>

(***************************************************************************)
(* certificateRequestPolicy (lines 95-146).                                *)
(***************************************************************************)
\* Fault: a webhook is called again instead of moving to the next one.
NextWebhook_Retry(i) == IF i = 1 THEN i ELSE i + 1

\* The webhook the loop of line 135 visits after webhooks[i].
NextWebhook(i) == i + 1

\* Line 135: the range over v.webhooks is exhausted.
LoopDone(i) == i > Len(webhooks)

\* Fault: the list aggregated so far is returned along with the error.
ErrorReturn_Partial(list, e) == [el |-> list, err |-> e]

\* What line 138 returns on an execution error: no list, and the error.
ErrorReturn(list, e) == [el |-> <<>>, err |-> e]

\* Lines 101-133 only read the policy: the policy as the base checks leave it.
AfterBaseChecks(p) == p

\* Lines 96-133: the base checks, whatever order the plugin map is visited.
certificateRequestPolicy_Base(w) ==
  /\ pc[w] = "base"
  /\ \E order \in MapOrders(policy[w].Plugins) :
       /\ collected' = [collected EXCEPT ![w] = UnrecognisedNames(order)]
       /\ el' = [el EXCEPT ![w] = BaseChecks(policy[w], order)]
  /\ policy' = [policy EXCEPT ![w] = AfterBaseChecks(@)]
  /\ idx' = [idx EXCEPT ![w] = 1]
  /\ trace' = [trace EXCEPT ![w] = Append(@, "BaseChecks")]
  /\ pc' = [pc EXCEPT ![w] = "loop"]
  /\ UNCHANGED <<decoder, lockVars, req, err, ret, resp, d, checkVars,
                 served, saw, invoked, responses, inflight>>

\* Line 136: call Validate on the next webhook; the call may block.
certificateRequestPolicy_Validate(w) ==
  /\ pc[w] = "loop"
  /\ ~LoopDone(idx[w])
  /\ invoked' = [invoked EXCEPT ![w] = Append(@, idx[w])]
  /\ inflight' = [inflight EXCEPT ![w] = @ \cup {idx[w]}]
  /\ pc' = [pc EXCEPT ![w] = "validate"]
  /\ UNCHANGED <<decoder, lockVars, req, policy, err, el, idx, ret, resp, d,
                 checkVars, served, collected, saw, trace, responses>>

\* Lines 136-145 and 74-86: Validate returns.  An execution error ends
\* certificateRequestPolicy at once; otherwise a denial adds its errors and
\* the loop moves on, and after the last webhook the list is returned.
\* Handle turns what was returned into its response.
certificateRequestPolicy_Validated(w) ==
  /\ pc[w] = "validate"
  /\ \E response \in ValidateResults(idx[w]) :
       /\ responses' = [responses EXCEPT ![w] = Append(@, response)]
       /\ IF response.Err # NoErr
          THEN /\ ret' = [ret EXCEPT ![w] = ErrorReturn(el[w], response.Err)]
               /\ UNCHANGED <<el, idx>>
          ELSE /\ el' = [el EXCEPT ![w] = AppendResponse(@, response)]
               /\ idx' = [idx EXCEPT ![w] = NextWebhook(@)]
               /\ ret' = [ret EXCEPT ![w] =
                            IF LoopDone(idx'[w])
                            THEN [el |-> el'[w], err |-> NoErr] ELSE @]
       /\ IF response.Err # NoErr \/ LoopDone(idx'[w])
          THEN /\ resp' = [resp EXCEPT ![w] = ResponseOf(ret'[w].el, ret'[w].err)]
               /\ pc' = [pc EXCEPT ![w] = "done"]
          ELSE /\ pc' = [pc EXCEPT ![w] = "loop"]
               /\ UNCHANGED resp
  /\ inflight' = [inflight EXCEPT ![w] = @ \ {idx[w]}]
  /\ UNCHANGED <<decoder, lockVars, req, policy, err, d, checkVars, served,
                 collected, saw, trace, invoked>>

(***************************************************************************)
(* InjectDecoder (lines 150-156).                                          *)
(***************************************************************************)
\* Fault: only the first injection is stored, later ones are dropped.
StoredDecoder_Once(old, arg) == IF old = Nil THEN arg ELSE old

\* Line 154: the handle after `v.decoder = d`, whatever it held before.
StoredDecoder(old, arg) == arg

\* Line 151: InjectDecoder(d) is called and enters v.lock.Lock().
InjectDecoder_Lock(w) ==
  /\ pc[w] = "idle"
  /\ CanLock(w)
  /\ d' = [d EXCEPT ![w] = DecoderOf(w)]
  /\ writer' = w
  /\ pc' = [pc EXCEPT ![w] = "wait"]
  /\ UNCHANGED <<decoder, readerCount, handleVars, checkVars, saw>>

\* Line 151: Lock() returns once the readers have left.
InjectDecoder_Locked(w) ==
  /\ pc[w] = "wait"
  /\ ReadersGone(w)
  /\ pc' = [pc EXCEPT ![w] = "locked"]
  /\ UNCHANGED <<decoder, lockVars, handleVars, d, checkVars, saw>>

\* Line 154: v.decoder = d
InjectDecoder_Assign(w) ==
  /\ pc[w] = "locked"
  /\ decoder' = StoredDecoder(decoder, d[w])
  /\ pc' = [pc EXCEPT ![w] = "assigned"]
  /\ UNCHANGED <<lockVars, handleVars, d, checkVars, saw>>

\* Lines 152, 155: return nil; the deferred Unlock runs.
InjectDecoder_Unlock(w) ==
  /\ pc[w] = "assigned"
  /\ writer' = "none"
  /\ pc' = [pc EXCEPT ![w] = "done"]
  /\ UNCHANGED <<decoder, readerCount, handleVars, d, checkVars, saw>>

(***************************************************************************)
(* check (lines 160-169).                                                  *)
(***************************************************************************)
\* Fault: the probe reports ready without looking at the handle.
IsSet_Always(handle) == TRUE

\* Line 164: the readiness test on the handle.
IsSet(handle) == handle # Nil

\* Line 161: a probe takes the read lock.
check_RLock(w) ==
  /\ pc[w] \in {"idle", "done"}
  /\ checked[w] < MaxChecks
  /\ CanRLock(w)
  /\ readerCount' = readerCount + 1
  /\ checked' = [checked EXCEPT ![w] = @ + 1]
  /\ pc' = [pc EXCEPT ![w] = "read"]
  /\ UNCHANGED <<decoder, writer, handleVars, d, ready, checkErr, saw>>

\* Line 164: v.decoder != nil
check_Read(w) ==
  /\ pc[w] = "read"
  /\ ready' = [ready EXCEPT ![w] = IsSet(decoder)]
  /\ saw' = [saw EXCEPT ![w] = decoder]
  /\ pc' = [pc EXCEPT ![w] = "return"]
  /\ UNCHANGED <<decoder, lockVars, handleVars, d, checkErr, checked>>

\* Lines 162, 165, 168: return; the deferred RUnlock runs.
check_Return(w) ==
  /\ pc[w] = "return"
  /\ checkErr' = [checkErr EXCEPT ![w] = IF ready[w] THEN NoErr ELSE "not ready"]
  /\ readerCount' = readerCount - 1
  /\ pc' = [pc EXCEPT ![w] = "done"]
  /\ UNCHANGED <<decoder, writer, handleVars, d, ready, checked, saw>>

(***************************************************************************)
(* The validator under concurrent requests, probes and injections.         *)
(***************************************************************************)
Next ==
  \/ \E w \in HandleWorkers : Handle_Receive(w)
  \/ \E w \in HandleWorkers : Handle_NoKind(w)
  \/ \E w \in HandleWorkers : Handle_Unrecognised(w)
  \/ \E w \in HandleWorkers : Handle_RLock(w)
  \/ \E w \in HandleWorkers : Handle_Decode(w)
  \/ \E w \in HandleWorkers : Handle_DecodePanic(w)
  \/ \E w \in HandleWorkers : Handle_RUnlock(w)
  \/ \E w \in HandleWorkers : certificateRequestPolicy_Base(w)
  \/ \E w \in HandleWorkers : certificateRequestPolicy_Validate(w)
  \/ \E w \in HandleWorkers : certificateRequestPolicy_Validated(w)
  \/ \E w \in InjectWorkers : InjectDecoder_Lock(w)
  \/ \E w \in InjectWorkers : InjectDecoder_Locked(w)
  \/ \E w \in InjectWorkers : InjectDecoder_Assign(w)
  \/ \E w \in InjectWorkers : InjectDecoder_Unlock(w)
  \/ \E w \in CheckWorkers : check_RLock(w)
  \/ \E w \in CheckWorkers : check_Read(w)
  \/ \E w \in CheckWorkers : check_Return(w)

Spec == Init /\ [][Next]_vars

(***************************************************************************)
(* Properties.                                                             *)
(***************************************************************************)
\* Some InjectDecoder call has completed.
Injected == \E i \in InjectWorkers : pc[i] = "done"

\* The request of worker w declares the recognised kind.
Recognised(w) == pc[w] # "idle" /\ req[w].RequestKind = CRPKind

\* Some webhook of the current request returned an execution error.
ExecutionError(w) == \E k \in DOMAIN responses[w] : responses[w][k].Err # NoErr

\* The error lists of the responses that deny, concatenated in order.
RECURSIVE DeniedErrors(_)
DeniedErrors(rs) ==
  IF rs = <<>> THEN <<>>
  ELSE (IF Head(rs).Allowed THEN <<>> ELSE Head(rs).Errors)
         \o DeniedErrors(Tail(rs))

\* The webhooks 1..n in registration order.
FirstWebhooks(n) == [k \in 1..n |-> k]

\* C1: when the Validate call of a webhook returns an execution error,
\* certificateRequestPolicy returns an empty list together with that error
\* (whatever the base checks and earlier webhooks had found), no later webhook
\* is invoked, and Handle answers Errored with status 500.
C1_ExecutionErrorAborts ==
  \A w \in HandleWorkers :
    \A k \in DOMAIN responses[w] :
      responses[w][k].Err # NoErr =>
        /\ ret[w] = [el |-> <<>>, err |-> responses[w][k].Err]
        /\ invoked[w] = FirstWebhooks(k)
        /\ inflight[w] = {}
        /\ pc[w] = "done"
        /\ resp[w].Variant = "Errored"
        /\ resp[w].Code = 500
        /\ ~resp[w].Allowed

\* C1 witness: the second webhook fails after the base checks and the first
\* webhook had both produced field errors; a webhook registered later exists
\* in the run where the first one fails, which the formula covers as well.
C1_Witness ==
  \E w \in HandleWorkers :
    /\ pc[w] = "done"
    /\ Len(responses[w]) = 2
    /\ responses[w][2].Err # NoErr
    /\ Required \in Range(el[w])
    /\ WebhookError(1) \in Range(el[w])
    /\ resp[w].Code = 500

\* C2: within one request the webhooks are invoked in registration order, one
\* at a time and each at most once: the call in progress, if any, is the last
\* one invoked, every earlier call has returned without an execution error.
C2_SequentialInOrder ==
  \A w \in HandleWorkers :
    /\ Len(invoked[w]) <= Len(webhooks)
    /\ invoked[w] = FirstWebhooks(Len(invoked[w]))
    /\ Cardinality(inflight[w]) <= 1
    /\ inflight[w] \subseteq {Len(invoked[w])}
    /\ Len(responses[w]) = Len(invoked[w]) - Cardinality(inflight[w])
    /\ \A k \in 1..(Len(invoked[w]) - 1) :
         k \in DOMAIN responses[w] /\ responses[w][k].Err = NoErr

\* C2 witness: the second webhook's call is in progress after the first one
\* returned a denial.
C2_Witness ==
  \E w \in HandleWorkers :
    /\ inflight[w] = {2}
    /\ Len(responses[w]) = 1
    /\ ~responses[w][1].Allowed

\* C3: a recognised-kind request is denied only after the base checks and every
\* webhook have run; when no webhook returns an execution error every webhook
\* is invoked exactly once, and the list returned is the base-check errors
\* followed by the error lists of the denying webhooks in registration order.
C3_FullAggregation ==
  \A w \in HandleWorkers :
    /\ (Recognised(w) /\ resp[w].Variant = "Denied") =>
         /\ "BaseChecks" \in Range(trace[w])
         /\ invoked[w] = FirstWebhooks(Len(webhooks))
         /\ Len(responses[w]) = Len(webhooks)
    /\ (Recognised(w) /\ pc[w] = "done" /\ policy[w] # NoPolicy
          /\ ~ExecutionError(w)) =>
         /\ invoked[w] = FirstWebhooks(Len(webhooks))
         /\ Len(responses[w]) = Len(webhooks)
         /\ ret[w].err = NoErr
         /\ \E order \in MapOrders(policy[w].Plugins) :
              ret[w].el = BaseChecks(policy[w], order) \o DeniedErrors(responses[w])

\* C3 witness: the base checks and both webhooks each contributed errors.
C3_Witness ==
  \E w \in HandleWorkers :
    /\ pc[w] = "done"
    /\ resp[w].Variant = "Denied"
    /\ Len(ret[w].el) >= 4
    /\ ret[w].el[1] = NotSupported("a")
    /\ ret[w].el[Len(ret[w].el)] = WebhookError(2)
    /\ WebhookError(1) \in Range(ret[w].el)

\* The goroutines that hold the read lock and have read the handle.
HasRead(w) ==
  \/ w \in CheckWorkers /\ pc[w] = "return"
  \/ w \in HandleWorkers /\ pc[w] \in {"runlock", "panicked"}

C6_DecodeBeforeInjection ==
  /\ \A h \in HandleWorkers :
       (Recognised(h) /\ "Decode" \in Range(trace[h]) /\ saw[h] = Nil) =>
         /\ pc[h] \in {"runlock", "done"}
         /\ pc[h] = "done" => (resp[h].Variant = "Errored" /\ resp[h].Code = 400)
  /\ decoder = Nil => \A c \in CheckWorkers : pc[c] = "return" => ~ready[c]

\* C7: a request whose declared kind is not the recognised one is denied with
\* a message naming its group, version and kind, in every state of the handle,
\* without taking the lock, decoding, or invoking a webhook.
C7_UnrecognisedDenied ==
  \A w \in HandleWorkers :
    (pc[w] # "idle" /\ req[w].RequestKind # Nil /\ req[w].RequestKind # CRPKind) =>
      /\ pc[w] \in {"dispatch", "done"}
      /\ trace[w] = <<>>
      /\ invoked[w] = <<>>
      /\ policy[w] = NoPolicy
      /\ pc[w] = "done" =>
           /\ resp[w].Variant = "Denied"
           /\ ~resp[w].Allowed
           /\ SubSeq(resp[w].Message, 2, 4) =
                <<req[w].RequestKind.Group, req[w].RequestKind.Version,
                  req[w].RequestKind.Kind>>

\* C7 witness: a request for another version of the policy kind was denied
\* while the decoder had not been injected.
C7_Witness ==
  \E w \in HandleWorkers :
    /\ pc[w] = "done"
    /\ req[w].RequestKind # Nil
    /\ req[w].RequestKind.Version = "v1beta1"
    /\ req[w].Object = "valid"
    /\ resp[w].Variant = "Denied"
    /\ decoder = Nil

\* C8: a request that declares no kind is answered Errored 400 at once: no
\* lock is taken, nothing is decoded, no base check and no webhook runs.
C8_NoKindIsClientError ==
  \A w \in HandleWorkers :
    (pc[w] # "idle" /\ req[w].RequestKind = Nil) =>
      /\ pc[w] \in {"dispatch", "done"}
      /\ trace[w] = <<>>
      /\ invoked[w] = <<>>
      /\ policy[w] = NoPolicy
      /\ pc[w] = "done" =>
           /\ resp[w].Variant = "Errored"
           /\ resp[w].Code = 400
           /\ ~resp[w].Allowed

\* C8 witness: such a request, carrying a decodable payload, was answered
\* after the decoder had been injected.
C8_Witness ==
  \E w \in HandleWorkers :
    /\ pc[w] = "done"
    /\ req[w].RequestKind = Nil
    /\ req[w].Object = "valid"
    /\ resp[w].Code = 400
    /\ decoder # Nil

\* C9: the response of every Handle call that returned is fixed by the
\* decision table, read top to bottom: no kind, unrecognised kind, decode
\* failure, execution error, non-empty list, empty list.
C9_DecisionTable ==
  \A w \in HandleWorkers :
    pc[w] = "done" =>
      IF req[w].RequestKind = Nil
        THEN resp[w].Variant = "Errored" /\ resp[w].Code = 400
      ELSE IF req[w].RequestKind # CRPKind
        THEN resp[w].Variant = "Denied"
      ELSE IF err[w] # NoErr
        THEN /\ resp[w].Variant = "Errored" /\ resp[w].Code = 400
             /\ "BaseChecks" \notin Range(trace[w])
             /\ invoked[w] = <<>>
      ELSE IF ExecutionError(w)
        THEN resp[w].Variant = "Errored" /\ resp[w].Code = 500
      ELSE IF Len(el[w]) > 0
        THEN resp[w].Variant = "Denied" /\ ~resp[w].Allowed
      ELSE resp[w].Variant = "Allowed" /\ resp[w].Allowed

\* C9 witness: a payload that does not deserialise was refused after the
\* decoder had been injected.
C9_Witness ==
  \E w \in HandleWorkers :
    /\ pc[w] = "done"
    /\ Recognised(w)
    /\ req[w].Object = "malformed"
    /\ err[w] # NoErr
    /\ saw[w] # Nil
    /\ resp[w].Code = 400

\* The policy names no plugin outside the registry.
NoUnknownPlugin(p) == p.Plugins \subseteq Range(registeredPlugins)
\* The issuer reference is present and not `{}`.
NonEmptyIssuerRef(p) == p.IssuerRef # Nil /\ p.IssuerRef # [Name |-> ""]
\* The namespace matcher is present and has labels.
NonEmptyNamespace(p) == p.Namespace # Nil /\ p.Namespace # [MatchLabels |-> {}]
\* Exactly one of the two sub-selectors is non-empty.
OneNonEmptySelector(p) == NonEmptyIssuerRef(p) # NonEmptyNamespace(p)
\* No webhook that answered denied the policy.
NoDenial(w) ==
  \A k \in DOMAIN responses[w] :
    responses[w][k].Err = NoErr => responses[w][k].Allowed
\* The labels of the namespace matcher, if any, are valid label values.
LabelsCompile(p) ==
  p.Namespace # Nil => \A l \in p.Namespace.MatchLabels : l[2] \in ValidLabelValues

\* C10 as stated: no unknown plugin, exactly one non-empty sub-selector and no
\* webhook denial (every webhook answered, and answered allowed) give Allowed.
C10_AllowedAsStated ==
  \A w \in HandleWorkers :
    (pc[w] = "done" /\ Recognised(w) /\ policy[w] # NoPolicy
       /\ NoUnknownPlugin(policy[w]) /\ OneNonEmptySelector(policy[w])
       /\ NoDenial(w) /\ ~ExecutionError(w)) =>
      resp[w].Variant = "Allowed"

\* C10 as amended: the outcome is Allowed when, in addition, the labels of the
\* namespace matcher compile into a selector and no webhook returns an
\* execution error.
C10_Allowed ==
  \A w \in HandleWorkers :
    (pc[w] = "done" /\ Recognised(w) /\ policy[w] # NoPolicy
       /\ NoUnknownPlugin(policy[w]) /\ OneNonEmptySelector(policy[w])
       /\ LabelsCompile(policy[w])
       /\ NoDenial(w) /\ ~ExecutionError(w)) =>
      /\ resp[w].Variant = "Allowed"
      /\ resp[w].Allowed

\* C10 witness: a policy with a registered plugin, an issuer reference and no
\* namespace matcher was allowed by both webhooks.
C10_Witness ==
  \E w \in HandleWorkers :
    /\ pc[w] = "done"
    /\ policy[w] # NoPolicy
    /\ policy[w].Plugins = {"c"}
    /\ NonEmptyIssuerRef(policy[w])
    /\ policy[w].Namespace = Nil
    /\ Len(responses[w]) = 2
    /\ NoDenial(w) /\ ~ExecutionError(w)
    /\ resp[w].Variant = "Allowed"

\* The base checks of the current request of w have run.
BaseChecked(w) == "BaseChecks" \in Range(trace[w])

\* The declared plugin names that are not registered, in ascending order.
UnknownPlugins(p) ==
  SelectSeq(PluginNames,
            LAMBDA n : n \in p.Plugins /\ n \notin Range(registeredPlugins))

\* The number of errors of the list on a field path, of a type.
CountErrors(list, type, path) ==
  Cardinality({k \in DOMAIN list :
                 list[k].Type = type /\ list[k].Field = path})

\* C11: the list holds exactly one not-supported error per declared name that
\* is not registered and none for a registered name, in ascending order of the
\* name and before every other error, whatever order the plugin map was
\* visited in.
C11_UnknownPluginsSorted ==
  \A w \in HandleWorkers :
    BaseChecked(w) =>
      LET unknown == UnknownPlugins(policy[w]) IN
        /\ Len(el[w]) >= Len(unknown)
        /\ \A k \in DOMAIN unknown : el[w][k] = NotSupported(unknown[k])
        /\ \A k \in DOMAIN el[w] :
             k > Len(unknown) => el[w][k].Type # "NotSupported"
        /\ Range(collected[w]) = Range(unknown)

\* C11 witness: the map gave "b" before "a", a registered name is declared as
\* well, and the errors name "a", then "b", followed by another error.
C11_Witness ==
  \E w \in HandleWorkers :
    /\ BaseChecked(w)
    /\ collected[w] = <<"b", "a">>
    /\ policy[w].Plugins = {"a", "b", "c"}
    /\ Len(el[w]) = 3
    /\ el[w][1] = NotSupported("a")
    /\ el[w][2] = NotSupported("b")
    /\ el[w][3] = Required

\* C12: with neither sub-selector set the base checks give exactly one
\* required-field error on spec.selector; with at least one set, be it empty,
\* they give none.
C12_SelectorRequired ==
  \A w \in HandleWorkers :
    BaseChecked(w) =>
      CountErrors(el[w], "Required", "spec.selector") =
        (IF policy[w].IssuerRef = Nil /\ policy[w].Namespace = Nil
         THEN 1 ELSE 0)

\* C12 witness: an empty namespace matcher alone is accepted: both webhooks
\* answered and the list has no error at all.
C12_Witness ==
  \E w \in HandleWorkers :
    /\ BaseChecked(w)
    /\ pc[w] = "done"
    /\ policy[w].IssuerRef = Nil
    /\ policy[w].Namespace = [MatchLabels |-> {}]
    /\ el[w] = <<>>

\* C13: a namespace matcher whose non-empty label mapping does not compile
\* gives exactly one invalid-field error on
\* spec.selector.namespace.matchLabels; no matcher, an empty mapping or one
\* that compiles give none.
C13_MatchLabelsInvalid ==
  \A w \in HandleWorkers :
    BaseChecked(w) =>
      CountErrors(el[w], "Invalid", "spec.selector.namespace.matchLabels") =
        (IF /\ policy[w].Namespace # Nil
            /\ policy[w].Namespace.MatchLabels # {}
            /\ \E l \in policy[w].Namespace.MatchLabels :
                 l[2] \notin ValidLabelValues
         THEN 1 ELSE 0)

\* C13 witness: the mapping env="not a label!" was reported, after the error
\* of an unknown plugin.
C13_Witness ==
  \E w \in HandleWorkers :
    /\ BaseChecked(w)
    /\ policy[w].Namespace = [MatchLabels |-> {<<"env", "not a label!">>}]
    /\ Len(el[w]) = 2
    /\ el[w][1].Type = "NotSupported"
    /\ el[w][2] = Invalid({<<"env", "not a label!">>})

\* The workers inside a read-side critical section: between RLock and RUnlock.
LiveReaders ==
  {w \in HandleWorkers : pc[w] \in {"decode", "runlock"}}
  \cup {w \in CheckWorkers : pc[w] \in {"read", "return"}}

\* The number of entries of the trace equal to the event.
CountEvents(t, event) == Cardinality({k \in DOMAIN t : t[k] = event})

\* The read locks the current Handle call of w has taken and not given back.
HeldBy(w) == CountEvents(trace[w], "RLock") - CountEvents(trace[w], "RUnlock")

\* C14: a Handle worker holds the decoder lock neither for reading nor for
\* writing during the base checks, and while one of its Validate calls is in
\* progress: it gave the read lock back before, and the lock is held only by
\* the other workers that are reading.
C14_NoLockAcrossValidate ==
  \A w \in HandleWorkers :
    (pc[w] \in {"base", "loop", "validate"} \/ inflight[w] # {}) =>
      /\ HeldBy(w) = 0
      /\ writer # w
      /\ w \notin LiveReaders
      /\ readerCount = Cardinality(LiveReaders)

\* C14 witness: a Validate call is in progress while an injection holds the
\* write lock and has stored its handle.
C14_Witness ==
  \E w \in HandleWorkers, i \in InjectWorkers :
    /\ pc[w] = "validate"
    /\ inflight[w] = {2}
    /\ pc[i] = "assigned"
    /\ writer = i
    /\ readerCount = 0

\* C15, in its finite form: every read lock that was taken is given back when
\* the call that took it ends, so that the lock counts exactly the workers
\* inside a read-side critical section and a waiting injection can go on as
\* soon as they leave.  Violated by a Handle call that decodes on the unset
\* handle (C6): it ends without its RUnlock.
C15_ReadLocksReleased == readerCount = Cardinality(LiveReaders)

\* C16: a request on which some webhook answered allowed == false, and none
\* returned an execution error, is never allowed, be the error list of the
\* denying webhook empty or not.
C16_DenialNeverAllowed ==
  \A w \in HandleWorkers :
    (pc[w] = "done" /\ Recognised(w) /\ ~ExecutionError(w)
       /\ \E k \in DOMAIN responses[w] : ~responses[w][k].Allowed) =>
      /\ ~resp[w].Allowed
      /\ resp[w].Variant = "Denied"

\* C17: the handle is read only by a worker that holds the read lock and
\* written only by the worker that holds the write lock, and no write overlaps
\* a read: while an injection is between Lock and Unlock no worker is inside a
\* read-side critical section, and there is one such injection at most.
C17_ReadsAndWritesExclude ==
  /\ \A r \in LiveReaders : readerCount >= 1
  /\ \A i \in InjectWorkers :
       pc[i] \in {"locked", "assigned"} =>
         /\ writer = i
         /\ readerCount = 0
         /\ LiveReaders = {}
         /\ \A j \in InjectWorkers \ {i} : pc[j] \notin {"locked", "assigned"}

\* C17 witness: an injection has written the handle under the write lock
\* while a Handle call for the recognised kind waits to decode and the other
\* injection waits to start.
C17_Witness ==
  \E i \in InjectWorkers, w \in HandleWorkers :
    /\ pc[i] = "assigned"
    /\ decoder = d[i]
    /\ pc[w] = "dispatch"
    /\ Recognised(w)
    /\ \E j \in InjectWorkers \ {i} : pc[j] = "idle"

\* C18: a Handle call that has ended, whatever its outcome, has left the
\* shared state as it found it, so that it has no effect on what a later
\* injection does and a later probe reports: it has not written the handle
\* and holds nothing of the lock.  Violated by a Handle call that decodes on
\* the unset handle (C6): the read lock it leaves behind keeps every later
\* injection from storing the handle.
C18_HandleLeavesSharedState ==
  \A w \in HandleWorkers :
    pc[w] \in {"done", "panicked"} => HeldBy(w) = 0

\* The part of C18 on the data: only the assignment of an injection changes
\* the handle, only the decode writes the resource, and a probe reports the
\* handle as it is.
DataFrame ==
  [][/\ decoder' # decoder =>
          \E i \in InjectWorkers : pc[i] = "locked" /\ pc'[i] = "assigned"
     /\ \A w \in HandleWorkers :
          policy'[w] # policy[w] =>
            \/ pc[w] = "decode"
            \/ pc'[w] = "dispatch"
     /\ \A c \in CheckWorkers :
          ready'[c] # ready[c] => ready'[c] = (decoder # Nil)]_vars

====
